---- MODULE Spec2Model ----
(***************************************************************************)
(* Model of the joystick controller's streaming engine:                    *)
(*   src/src/components/Dashboard.tsx (second Dashboard, lines 459-1071)   *)
(*   src/src/hooks/useGamepad.ts                                           *)
(*                                                                         *)
(* Units: axis values are integers in thousandths (0.123 is 123), payload  *)
(* values are integers in hundredths (0.12 is 12, a pressed button, JSON   *)
(* 1, is 100), time is in milliseconds.                                    *)
(*                                                                         *)
(* A React state update, the render it causes and the effects of that      *)
(* render are one step: every action that changes a dependency of the      *)
(* send effect (Dashboard.tsx:632) runs the effect's cleanup and body.     *)
(***************************************************************************)
EXTENDS Integers, Sequences, FiniteSets, TLC

VARIABLES
    present,              \* pads navigator.getGamepads() returns non-null
    gamepads,             \* useGamepad.ts:10
    selectedGamepadIndex, \* useGamepad.ts:11
    gamepadState,         \* useGamepad.ts:12
    animationFrames,      \* selections whose pollGamepad is scheduled, useGamepad.ts:54
    natsConnection,       \* Dashboard.tsx:476
    isConnected,          \* Dashboard.tsx:477
    error,                \* Dashboard.tsx:478
    isStreaming,          \* Dashboard.tsx:479
    mappings,             \* Dashboard.tsx:480
    lastMessage,          \* Dashboard.tsx:481
    sendHz,               \* Dashboard.tsx:483
    sendByInterval,       \* Dashboard.tsx:484
    lastSentState,        \* Dashboard.tsx:488
    lastAxisValues,       \* Dashboard.tsx:489
    connecting,           \* handleConnect calls awaiting connect()
    closing,              \* handleDisconnect calls awaiting close()
    connOpen,             \* the held connection has not been asked to close
    leaked,               \* open connections no state variable references
    timers,               \* armed setInterval timers with their closures
    pub,                  \* the publish call made by the last step, if any
    sinceSend,            \* ms in interval mode since entry or the last publish,
                          \* counted up to one past the period
    lastOp                \* the last operation and the scheduler state before it

vars == << present, gamepads, selectedGamepadIndex, gamepadState, animationFrames, natsConnection,
           isConnected, error, isStreaming, mappings, lastMessage, sendHz,
           sendByInterval, lastSentState, lastAxisValues, connecting, closing,
           connOpen, leaked, timers, pub, sinceSend, lastOp >>

----------------------------------------------------------------------------
(* Bounds and input sets *)

MaxPending == 2
MaxLeaked == 1

Pads == {0}
ButtonStates == {<<FALSE>>, <<TRUE>>}
AxisValues == {0, 30, 123}
AxesStates == {<<v>> : v \in AxisValues}
FieldTexts == {<<"a">>, <<" ", "b">>, <<" ">>}
TimeSteps == {250}
SendHzInputs == {0, 100}

Null == 0
NoSelection == -1
NullState == [isNull |-> TRUE, buttons |-> <<>>, axes |-> <<>>]
Snapshots == [isNull : {FALSE}, buttons : ButtonStates, axes : AxesStates]
NoPayload == [n \in {} |-> 0]
NoPub == [n |-> 0, ok |-> FALSE, payload |-> NoPayload]
NoMessage == [set |-> FALSE, payload |-> NoPayload]
NoLatch == [i \in {} |-> 0]

Button(i, n) == [type |-> "button", index |-> i, fieldName |-> n]
Axis(i, n) == [type |-> "axis", index |-> i, fieldName |-> n]

\* Saved configurations offered by the ConfigPanel; hasHz / hasMode are FALSE
\* for a config whose sendHz / sendByInterval is undefined.
SavedConfigs ==
    { [mappings |-> <<Button(1, <<"a">>)>>, hasHz |-> FALSE, sendHz |-> 0,
       hasMode |-> FALSE, sendByInterval |-> FALSE],
      [mappings |-> <<Button(0, <<"a">>), Axis(1, <<"a">>)>>, hasHz |-> TRUE, sendHz |-> 150,
       hasMode |-> TRUE, sendByInterval |-> TRUE],
      [mappings |-> <<>>, hasHz |-> TRUE, sendHz |-> 2,
       hasMode |-> TRUE, sendByInterval |-> FALSE] }

----------------------------------------------------------------------------
(* Pure helpers *)

Abs(x) == IF x < 0 THEN -x ELSE x
Min(a, b) == IF a < b THEN a ELSE b

\* const deadZone = 0.05
deadZone == 50

\* Mutant: a dead zone that includes its threshold.
DeadzoneInclusive(rawValue) == IF Abs(rawValue) <= deadZone THEN 0 ELSE rawValue

\* Mutant: no dead zone.
DeadzoneOff(rawValue) == rawValue

\* Math.abs(rawValue) < deadZone ? 0 : rawValue
Deadzone(rawValue) == IF Abs(rawValue) < deadZone THEN 0 ELSE rawValue

\* An axis value v stands for the double nearest to v / 1000. DoubleBelow holds
\* the v in 0..1000 ending in 5 whose double is smaller than v / 1000; 125, 375,
\* 625 and 875 are doubles exactly, and the other v ending in 5 have a larger
\* double.
DoubleBelow ==
    { 15, 45, 75, 105, 145, 155, 175, 185, 205, 215, 235, 245, 285, 295, 305, 345,
      355, 365, 415, 425, 435, 475, 485, 495, 565, 575, 585, 595, 605, 615, 695, 705,
      715, 725, 735, 745, 815, 825, 835, 845, 855, 865, 945, 955, 965, 975, 985, 995 }

\* Mutant: ties of the decimal digits always away from zero.
ToFixed2HalfAway(v) == IF v >= 0 THEN (v + 5) \div 10 ELSE -((-v + 5) \div 10)

\* parseFloat(currentValue.toFixed(2)), thousandths to hundredths. toFixed
\* takes the sign off and picks the integer n with n / 100 nearest to the
\* double's value, the larger n when two are equally near.
ToFixed2(v) ==
    LET a == Abs(v)
        q == a \div 10
        r == a % 10
        n == IF r < 5 \/ (r = 5 /\ a \in DoubleBelow) THEN q ELSE q + 1
    IN IF v < 0 THEN -n ELSE n

\* Mutant: a button read that takes the last button for an index outside the
\* array.
ButtonAtClamped(gs, index) ==
    IF index + 1 \in DOMAIN gs.buttons
    THEN (IF gs.buttons[index + 1] THEN "true" ELSE "false")
    ELSE IF gs.buttons # <<>> /\ gs.buttons[Len(gs.buttons)] THEN "true" ELSE "undefined"

\* gamepadState.buttons[index]: "undefined" outside the array.
ButtonAt(gs, index) ==
    IF index + 1 \in DOMAIN gs.buttons
    THEN (IF gs.buttons[index + 1] THEN "true" ELSE "false")
    ELSE "undefined"

\* gamepadState.axes[index] || 0
AxisAt(gs, index) ==
    IF index + 1 \in DOMAIN gs.axes THEN gs.axes[index + 1] ELSE 0

\* ref.current[index]: "undefined" for a key that was never written.
LatchButton(latch, index) == IF index \in DOMAIN latch THEN latch[index] ELSE "undefined"
LatchAxis(latch, index) == IF index \in DOMAIN latch THEN <<latch[index]>> ELSE <<>>

\* Mutant: an assignment that keeps the value a key already has.
PutIfAbsent(f, k, v) == [x \in DOMAIN f \cup {k} |-> IF x \in DOMAIN f THEN f[x] ELSE v]

\* obj[key] = value
Put(f, k, v) == [x \in DOMAIN f \cup {k} |-> IF x = k THEN v ELSE f[x]]

\* The value one mapping contributes to the payload.
FieldValue(gs, m) ==
    IF m.type = "button"
    THEN (IF ButtonAt(gs, m.index) = "true" THEN 100 ELSE 0)
    ELSE ToFixed2(Deadzone(AxisAt(gs, m.index)))

\* buildPayload: later mappings overwrite earlier ones with the same fieldName.
RECURSIVE BuildFrom(_, _, _, _)
BuildFrom(gs, maps, i, payload) ==
    IF i > Len(maps) THEN payload
    ELSE BuildFrom(gs, maps, i + 1, Put(payload, maps[i].fieldName, FieldValue(gs, maps[i])))

buildPayload(gs, maps) == BuildFrom(gs, maps, 1, NoPayload)

\* The change-detection branch: one pass over the mapping table that compares
\* with the latches, writes the latches of changed channels and builds the
\* payload.
RECURSIVE DetectFrom(_, _, _, _)
DetectFrom(gs, maps, i, acc) ==
    IF i > Len(maps) THEN acc
    ELSE LET m == maps[i]
             isPressed == ButtonAt(gs, m.index)
             currentValue == Deadzone(AxisAt(gs, m.index))
             changed == IF m.type = "button"
                        THEN isPressed # LatchButton(acc.buttons, m.index)
                        ELSE LatchAxis(acc.axes, m.index) # <<currentValue>>
         IN DetectFrom(gs, maps, i + 1,
              [hasChange |-> acc.hasChange \/ changed,
               buttons |-> IF m.type = "button" /\ changed
                           THEN Put(acc.buttons, m.index, isPressed) ELSE acc.buttons,
               axes |-> IF m.type = "axis" /\ changed
                        THEN Put(acc.axes, m.index, currentValue) ELSE acc.axes,
               payload |-> Put(acc.payload, m.fieldName, FieldValue(gs, m))])

\* Mutants: a detector that always reports a change; one that never writes
\* the axis latch.
detectChangesAlways(gs, maps, buttons, axes) ==
    [DetectFrom(gs, maps, 1,
        [hasChange |-> FALSE, buttons |-> buttons, axes |-> axes, payload |-> NoPayload])
     EXCEPT !.hasChange = TRUE]
detectChangesNoAxisLatch(gs, maps, buttons, axes) ==
    [DetectFrom(gs, maps, 1,
        [hasChange |-> FALSE, buttons |-> buttons, axes |-> axes, payload |-> NoPayload])
     EXCEPT !.axes = axes]

\* Mutant: a detector that compares the rounded axis values.
detectChangesRounded(gs, maps, buttons, axes) ==
    [DetectFrom(gs, maps, 1,
        [hasChange |-> FALSE, buttons |-> buttons, axes |-> axes, payload |-> NoPayload])
     EXCEPT !.hasChange =
        \E i \in DOMAIN maps :
            IF maps[i].type = "button"
            THEN ButtonAt(gs, maps[i].index) # LatchButton(buttons, maps[i].index)
            ELSE \/ maps[i].index \notin DOMAIN axes
                 \/ ToFixed2(axes[maps[i].index]) # ToFixed2(Deadzone(AxisAt(gs, maps[i].index)))]

detectChanges(gs, maps, buttons, axes) ==
    DetectFrom(gs, maps, 1,
        [hasChange |-> FALSE, buttons |-> buttons, axes |-> axes, payload |-> NoPayload])

\* const intervalMs = 1000 / sendHz, as the whole milliseconds a timer counts.
intervalMs(hz) == 1000 \div hz

\* Mutant: the guard without its isStreaming test.
effectGuardNoStreaming(streaming, nc, gs, maps) ==
    nc # Null /\ ~gs.isNull /\ Len(maps) # 0

\* The guard of the send effect.
effectGuard(streaming, nc, gs, maps) ==
    streaming /\ nc # Null /\ ~gs.isNull /\ Len(maps) # 0

SchedulerState(streaming, byInterval) ==
    IF ~streaming THEN "Idle" ELSE IF byInterval THEN "IntervalDriven" ELSE "ChangeDetect"

Op(name) == [op |-> name, from |-> SchedulerState(isStreaming, sendByInterval)]

----------------------------------------------------------------------------
(* The send effect, Dashboard.tsx:554-632 *)

\* Mutant: an effect that returns no cleanup.
clearIntervalMissing(ts) == ts

\* The cleanup the previous run of the effect returned: clearInterval(intervalId).
clearInterval(ts) == {}

\* Mutant: a callback that keeps the snapshot and the table of the render
\* before the one that arms it.
setIntervalStale(gs, maps, hz) ==
    [left |-> intervalMs(hz), period |-> intervalMs(hz),
     snapshot |-> gamepadState, mappings |-> mappings]

\* setInterval(() => sendPayload(buildPayload()), intervalMs): the callback
\* closes over the gamepadState and mappings of the render that armed it.
setInterval(gs, maps, hz) ==
    [left |-> intervalMs(hz), period |-> intervalMs(hz), snapshot |-> gs, mappings |-> maps]

\* Mutants: a sendPayload that stores the payload although publish threw; a
\* sendPayload that never stores it.
sendPayloadStoresOnFailure(payload, ok) ==
    /\ pub' = [n |-> 1, ok |-> ok, payload |-> payload]
    /\ lastMessage' = [set |-> TRUE, payload |-> payload]
sendPayloadNeverStores(payload, ok) ==
    /\ pub' = [n |-> 1, ok |-> ok, payload |-> payload]
    /\ UNCHANGED lastMessage

\* sendPayload: publish inside try/catch; ok is FALSE when publish throws.
sendPayload(payload, ok) ==
    /\ pub' = [n |-> 1, ok |-> ok, payload |-> payload]
    /\ lastMessage' = IF ok THEN [set |-> TRUE, payload |-> payload] ELSE lastMessage

noPublish ==
    /\ pub' = NoPub
    /\ UNCHANGED lastMessage

\* One run of the effect (cleanup of the previous run, then the body) on the
\* state the step has just written.
SendEffect(ok) ==
    IF ~effectGuard(isStreaming', natsConnection', gamepadState', mappings')
    THEN /\ timers' = clearInterval(timers)
         /\ UNCHANGED << lastSentState, lastAxisValues >>
         /\ noPublish
    ELSE IF sendByInterval'
    THEN /\ timers' = clearInterval(timers) \cup {setInterval(gamepadState', mappings', sendHz')}
         /\ UNCHANGED << lastSentState, lastAxisValues >>
         /\ noPublish
    ELSE LET r == detectChanges(gamepadState', mappings', lastSentState, lastAxisValues)
         IN /\ timers' = clearInterval(timers)
            /\ lastSentState' = r.buttons
            /\ lastAxisValues' = r.axes
            /\ IF r.hasChange THEN sendPayload(r.payload, ok) ELSE noPublish

\* A step that changes no dependency of the send effect.
NoEffect ==
    /\ UNCHANGED << timers, lastSentState, lastAxisValues >>
    /\ noPublish

IntervalActive(streaming, nc, gs, maps, byInterval) ==
    effectGuard(streaming, nc, gs, maps) /\ byInterval

\* The observer clock sinceSend, d being the time the step takes.
Track(d) ==
    sinceSend' =
        IF ~IntervalActive(isStreaming', natsConnection', gamepadState', mappings', sendByInterval')
        THEN 0
        ELSE IF \/ ~IntervalActive(isStreaming, natsConnection, gamepadState, mappings, sendByInterval)
                \/ pub'.n = 1
                \/ sendHz' # sendHz
        THEN 0
        ELSE Min(sinceSend + d, intervalMs(sendHz') + 1)

----------------------------------------------------------------------------
(* useGamepad.ts *)

Init ==
    /\ present = {}
    /\ gamepads = {}
    /\ selectedGamepadIndex = NoSelection
    /\ gamepadState = NullState
    /\ animationFrames = {}
    /\ natsConnection = Null
    /\ isConnected = FALSE
    /\ error = "null"
    /\ isStreaming = FALSE
    /\ mappings = <<>>
    /\ lastMessage = NoMessage
    /\ sendHz = 2
    /\ sendByInterval = FALSE
    /\ lastSentState = NoLatch
    /\ lastAxisValues = NoLatch
    /\ connecting = 0
    /\ closing = 0
    /\ connOpen = FALSE
    /\ leaked = 0
    /\ timers = {}
    /\ pub = NoPub
    /\ sinceSend = 0
    /\ lastOp = [op |-> "Init", from |-> "Idle"]

Connection == << natsConnection, isConnected, error, connecting, closing, connOpen, leaked >>
Config == << sendHz, sendByInterval >>
Device == << present, gamepads, selectedGamepadIndex, gamepadState, animationFrames >>

\* Mutant: a polling effect that returns no cleanup.
cancelAnimationFrameMissing(frames, index) == frames

\* The cleanup of the polling effect: cancelAnimationFrame(animationFrameId)
\* for the loop of the selection the effect ran for, if there was one.
cancelAnimationFrame(frames, index) == frames \ {index}

\* pollGamepad ends with requestAnimationFrame(pollGamepad).
requestAnimationFrame(frames, index) == frames \cup {index}

\* handleGamepadConnected: updateGamepads().
handleGamepadConnected(p) ==
    /\ p \notin present
    /\ present' = present \cup {p}
    /\ gamepads' = present'
    /\ UNCHANGED << selectedGamepadIndex, gamepadState, animationFrames, isStreaming, mappings >>
    /\ UNCHANGED << Connection, Config >>
    /\ NoEffect
    /\ Track(0)
    /\ lastOp' = Op("handleGamepadConnected")

\* handleGamepadDisconnected: updateGamepads(), and the selection is cleared
\* when the pad was the selected one; the polling effect's cleanup then
\* cancels the loop and its body sets gamepadState to null.
handleGamepadDisconnected(p) ==
    /\ p \in present
    /\ present' = present \ {p}
    /\ gamepads' = present'
    /\ UNCHANGED << isStreaming, mappings, Connection, Config >>
    /\ IF selectedGamepadIndex = p
       THEN /\ selectedGamepadIndex' = NoSelection
            /\ animationFrames' = cancelAnimationFrame(animationFrames, selectedGamepadIndex)
            /\ gamepadState' = NullState
            /\ SendEffect(TRUE)
       ELSE /\ UNCHANGED << selectedGamepadIndex, gamepadState, animationFrames >>
            /\ NoEffect
    /\ Track(0)
    /\ lastOp' = Op("handleGamepadDisconnected")

\* Click on a pad of the list: setSelectedGamepadIndex(gamepad.index); the
\* polling effect's cleanup cancels the loop of the old selection, and its
\* body runs pollGamepad at once, which schedules the next frame.
selectGamepad(p, s, ok) ==
    /\ p \in gamepads
    /\ p # selectedGamepadIndex
    /\ selectedGamepadIndex' = p
    /\ animationFrames' =
           requestAnimationFrame(cancelAnimationFrame(animationFrames, selectedGamepadIndex), p)
    /\ gamepadState' = IF p \in present THEN s ELSE gamepadState
    /\ UNCHANGED << present, gamepads, isStreaming, mappings, Connection, Config >>
    /\ SendEffect(ok)
    /\ Track(0)
    /\ lastOp' = Op("selectGamepad")

\* pollGamepad on an animation frame: a new snapshot object when the selected
\* pad is there; the callback schedules itself again.
pollGamepad(s, ok) ==
    /\ selectedGamepadIndex # NoSelection
    /\ selectedGamepadIndex \in animationFrames
    /\ selectedGamepadIndex \in present
    /\ gamepadState' = s
    /\ animationFrames' = requestAnimationFrame(animationFrames, selectedGamepadIndex)
    /\ UNCHANGED << present, gamepads, selectedGamepadIndex, isStreaming, mappings >>
    /\ UNCHANGED << Connection, Config >>
    /\ SendEffect(ok)
    /\ Track(0)
    /\ lastOp' = Op("pollGamepad")

----------------------------------------------------------------------------
(* Dashboard.tsx: connection *)

\* handleConnect up to its await: setError(null), connect() pending. The
\* Connect button is rendered while isConnected is false.
handleConnect ==
    /\ ~isConnected
    /\ connecting < MaxPending
    /\ leaked < MaxLeaked
    /\ connecting' = connecting + 1
    /\ error' = "null"
    /\ UNCHANGED << natsConnection, isConnected, closing, connOpen, leaked >>
    /\ UNCHANGED << Device, Config, isStreaming, mappings >>
    /\ NoEffect
    /\ Track(0)
    /\ lastOp' = Op("handleConnect")

\* connect() resolved: setNatsConnection(nc), setIsConnected(true). A
\* connection that was held and open is no longer referenced.
connectResolved(ok) ==
    /\ connecting > 0
    /\ connecting' = connecting - 1
    /\ natsConnection' = 1
    /\ isConnected' = TRUE
    /\ connOpen' = TRUE
    /\ leaked' = IF natsConnection # Null /\ connOpen THEN leaked + 1 ELSE leaked
    /\ UNCHANGED << error, closing, Device, Config, isStreaming, mappings >>
    /\ SendEffect(ok)
    /\ Track(0)
    /\ lastOp' = Op("connectResolved")

\* connect() rejected: the catch block stores the message.
connectRejected ==
    /\ connecting > 0
    /\ connecting' = connecting - 1
    /\ error' = "Failed to connect to NATS"
    /\ UNCHANGED << natsConnection, isConnected, closing, connOpen, leaked >>
    /\ UNCHANGED << Device, Config, isStreaming, mappings >>
    /\ NoEffect
    /\ Track(0)
    /\ lastOp' = Op("connectRejected")

\* handleDisconnect up to its await: close() is requested on the held
\* connection. The Disconnect button is rendered while isConnected is true.
handleDisconnect ==
    /\ isConnected
    /\ natsConnection # Null
    /\ closing < MaxPending
    /\ closing' = closing + 1
    /\ connOpen' = FALSE
    /\ UNCHANGED << natsConnection, isConnected, error, connecting, leaked >>
    /\ UNCHANGED << Device, Config, isStreaming, mappings >>
    /\ NoEffect
    /\ Track(0)
    /\ lastOp' = Op("handleDisconnect")

\* Mutant: handleDisconnect without setIsStreaming(false).
disconnectDoneKeepsStreaming ==
    /\ closing > 0
    /\ closing' = closing - 1
    /\ natsConnection' = Null
    /\ isConnected' = FALSE
    /\ connOpen' = FALSE
    /\ leaked' = IF natsConnection # Null /\ connOpen THEN leaked + 1 ELSE leaked
    /\ UNCHANGED << error, connecting, Device, Config, mappings, isStreaming >>
    /\ SendEffect(TRUE)
    /\ Track(0)
    /\ lastOp' = Op("disconnectDone")

\* handleDisconnect after its await: setNatsConnection(null),
\* setIsConnected(false), setIsStreaming(false).
disconnectDone ==
    /\ closing > 0
    /\ closing' = closing - 1
    /\ natsConnection' = Null
    /\ isConnected' = FALSE
    /\ isStreaming' = FALSE
    /\ connOpen' = FALSE
    /\ leaked' = IF natsConnection # Null /\ connOpen THEN leaked + 1 ELSE leaked
    /\ UNCHANGED << error, connecting, Device, Config, mappings >>
    /\ SendEffect(TRUE)
    /\ Track(0)
    /\ lastOp' = Op("disconnectDone")

----------------------------------------------------------------------------
(* Dashboard.tsx: streaming control and configuration *)

\* Mutant: a button that is enabled with an empty mapping table.
toggleStreamingUngated(ok) ==
    /\ selectedGamepadIndex # NoSelection
    /\ isConnected
    /\ isStreaming' = ~isStreaming
    /\ UNCHANGED << Device, Connection, Config, mappings >>
    /\ SendEffect(ok)
    /\ Track(0)
    /\ lastOp' = Op("toggleStreaming")

\* Mutant: a button that is enabled without a connection.
toggleStreamingOffline(ok) ==
    /\ selectedGamepadIndex # NoSelection
    /\ Len(mappings) # 0
    /\ isStreaming' = ~isStreaming
    /\ UNCHANGED << Device, Connection, Config, mappings >>
    /\ SendEffect(ok)
    /\ Track(0)
    /\ lastOp' = Op("toggleStreaming")

\* The Start/Stop Streaming button: rendered when a pad is selected, disabled
\* unless connected with a non-empty table; onClick toggles isStreaming.
toggleStreaming(ok) ==
    /\ selectedGamepadIndex # NoSelection
    /\ ~(~isConnected \/ Len(mappings) = 0)
    /\ isStreaming' = ~isStreaming
    /\ UNCHANGED << Device, Connection, Config, mappings >>
    /\ SendEffect(ok)
    /\ Track(0)
    /\ lastOp' = Op("toggleStreaming")

\* The "Send by interval" checkbox, disabled while streaming.
setSendByInterval ==
    /\ ~isStreaming
    /\ sendByInterval' = ~sendByInterval
    /\ UNCHANGED << sendHz, Device, Connection, isStreaming, mappings >>
    /\ SendEffect(TRUE)
    /\ Track(0)
    /\ lastOp' = Op("setSendByInterval")

Max(a, b) == IF a > b THEN a ELSE b

\* The frequency input, rendered when sendByInterval is set and disabled
\* while streaming: setSendHz(Math.max(1, Math.min(100, Number(value)))).
setSendHz(v) ==
    /\ sendByInterval
    /\ ~isStreaming
    /\ sendHz' = Max(1, Min(100, v))
    /\ UNCHANGED << sendByInterval, Device, Connection, isStreaming, mappings >>
    /\ SendEffect(TRUE)
    /\ Track(0)
    /\ lastOp' = Op("setSendHz")

\* Mutant: a config load whose new state no effect run sees.
handleLoadConfigNoEffect(config, ok) ==
    /\ mappings' = config.mappings
    /\ sendHz' = IF config.hasHz THEN config.sendHz ELSE sendHz
    /\ sendByInterval' = IF config.hasMode THEN config.sendByInterval ELSE sendByInterval
    /\ UNCHANGED << Device, Connection, isStreaming >>
    /\ NoEffect
    /\ Track(0)
    /\ lastOp' = Op("handleLoadConfig")

\* handleLoadConfig: the table, and the frequency and mode the config defines,
\* as they are stored, whether streaming or not.
handleLoadConfig(config, ok) ==
    /\ mappings' = config.mappings
    /\ sendHz' = IF config.hasHz THEN config.sendHz ELSE sendHz
    /\ sendByInterval' = IF config.hasMode THEN config.sendByInterval ELSE sendByInterval
    /\ UNCHANGED << Device, Connection, isStreaming >>
    /\ SendEffect(ok)
    /\ Track(0)
    /\ lastOp' = Op("handleLoadConfig")

\* The mount effect: configManager.loadFromUrl() returned a config. It runs
\* once, before any other operation.
loadUrlConfig(config) ==
    /\ lastOp.op = "Init"
    /\ mappings' = config.mappings
    /\ sendHz' = IF config.hasHz THEN config.sendHz ELSE sendHz
    /\ sendByInterval' = IF config.hasMode THEN config.sendByInterval ELSE sendByInterval
    /\ UNCHANGED << Device, Connection, isStreaming >>
    /\ SendEffect(TRUE)
    /\ Track(0)
    /\ lastOp' = Op("loadUrlConfig")

----------------------------------------------------------------------------
(* Dashboard.tsx: the mapping table *)

IsSpace(c) == c = " "

\* String.prototype.trim
RECURSIVE TrimLeft(_)
TrimLeft(t) == IF t # <<>> /\ IsSpace(Head(t)) THEN TrimLeft(Tail(t)) ELSE t
RECURSIVE TrimRight(_)
TrimRight(t) ==
    IF t # <<>> /\ IsSpace(t[Len(t)]) THEN TrimRight(SubSeq(t, 1, Len(t) - 1)) ELSE t
trim(t) == TrimRight(TrimLeft(t))

\* Mutant: a filter that drops every entry of the index, whatever its type.
RECURSIVE withoutIndex(_, _, _)
withoutIndex(maps, type, index) ==
    IF maps = <<>> THEN <<>>
    ELSE IF Head(maps).index = index
         THEN withoutIndex(Tail(maps), type, index)
         ELSE <<Head(maps)>> \o withoutIndex(Tail(maps), type, index)

\* mappings.filter(m => !(m.type === type && m.index === index))
RECURSIVE without(_, _, _)
without(maps, type, index) ==
    IF maps = <<>> THEN <<>>
    ELSE IF Head(maps).type = type /\ Head(maps).index = index
         THEN without(Tail(maps), type, index)
         ELSE <<Head(maps)>> \o without(Tail(maps), type, index)

\* mappings.find(m => m.type === type && m.index === index) is defined
getMapping(maps, type, index) ==
    \E i \in DOMAIN maps : maps[i].type = type /\ maps[i].index = index

\* Mutants: addMapping without the filter of the existing entry; addMapping
\* without the blank-name return.
addMappingResultNoFilter(maps, type, index, fieldName) ==
    IF trim(fieldName) = <<>> THEN maps
    ELSE maps \o <<[type |-> type, index |-> index, fieldName |-> trim(fieldName)]>>
addMappingResultNoBlankCheck(maps, type, index, fieldName) ==
    without(maps, type, index) \o
    <<[type |-> type, index |-> index, fieldName |-> trim(fieldName)]>>

\* The table addMapping writes; the table itself when the name is blank.
addMappingResult(maps, type, index, fieldName) ==
    IF trim(fieldName) = <<>> THEN maps
    ELSE without(maps, type, index) \o
         <<[type |-> type, index |-> index, fieldName |-> trim(fieldName)]>>

removeMappingResult(maps, type, index) == without(maps, type, index)

\* A row of the Field Mappings panel exists for each button and axis of the
\* current snapshot, when a pad is selected.
RowShown(type, index) ==
    /\ selectedGamepadIndex # NoSelection
    /\ ~gamepadState.isNull
    /\ index + 1 \in DOMAIN (IF type = "button" THEN gamepadState.buttons ELSE gamepadState.axes)

\* Mutant: an addMapping whose new table no effect run sees.
addMappingCallNoEffect(type, index, fieldName, ok) ==
    /\ mappings' = addMappingResult(mappings, type, index, fieldName)
    /\ UNCHANGED << Device, Connection, Config, isStreaming >>
    /\ NoEffect
    /\ Track(0)
    /\ lastOp' = Op(IF trim(fieldName) = <<>> THEN "addMappingBlank" ELSE "addMapping")

\* A call of addMapping: a blank name returns before setMappings, so nothing
\* renders and no effect runs.
addMappingCall(type, index, fieldName, ok) ==
    /\ mappings' = addMappingResult(mappings, type, index, fieldName)
    /\ UNCHANGED << Device, Connection, Config, isStreaming >>
    /\ IF trim(fieldName) = <<>> THEN NoEffect ELSE SendEffect(ok)
    /\ Track(0)
    /\ lastOp' = Op(IF trim(fieldName) = <<>> THEN "addMappingBlank" ELSE "addMapping")

\* A call of removeMapping: setMappings with the filtered table.
removeMappingCall(type, index, ok) ==
    /\ mappings' = removeMappingResult(mappings, type, index)
    /\ UNCHANGED << Device, Connection, Config, isStreaming >>
    /\ SendEffect(ok)
    /\ Track(0)
    /\ lastOp' = Op("removeMapping")

\* addMapping, called from a row's onBlur with a non-blank text.
addMapping(type, index, fieldName, ok) ==
    /\ RowShown(type, index)
    /\ trim(fieldName) # <<>>
    /\ addMappingCall(type, index, fieldName, ok)

\* removeMapping, called from a row's remove button or from its onBlur with a
\* blank text, both only when the row has a mapping.
removeMapping(type, index, ok) ==
    /\ RowShown(type, index)
    /\ getMapping(mappings, type, index)
    /\ removeMappingCall(type, index, ok)

----------------------------------------------------------------------------
(* Timers *)

\* Mutant: an interval callback that publishes only what change detection
\* would publish.
timerFireCompares(t, ok) ==
    /\ t \in timers
    /\ t.left = 0
    /\ timers' = (timers \ {t}) \cup {[t EXCEPT !.left = t.period]}
    /\ IF detectChanges(t.snapshot, t.mappings, lastSentState, lastAxisValues).hasChange
       THEN sendPayload(buildPayload(t.snapshot, t.mappings), ok)
       ELSE noPublish
    /\ UNCHANGED << lastSentState, lastAxisValues >>
    /\ UNCHANGED << Device, Connection, Config, isStreaming, mappings >>
    /\ Track(0)
    /\ lastOp' = Op("timerFire")

\* The interval callback: sendPayload(buildPayload()) on the closure's
\* snapshot and table; the timer repeats.
timerFire(t, ok) ==
    /\ t \in timers
    /\ t.left = 0
    /\ timers' = (timers \ {t}) \cup {[t EXCEPT !.left = t.period]}
    /\ sendPayload(buildPayload(t.snapshot, t.mappings), ok)
    /\ UNCHANGED << lastSentState, lastAxisValues >>
    /\ UNCHANGED << Device, Connection, Config, isStreaming, mappings >>
    /\ Track(0)
    /\ lastOp' = Op("timerFire")

\* Time passes, by a step or up to the next timer fire; a due timer fires
\* before time goes on.
advanceTime(d) ==
    /\ timers # {}
    /\ d > 0
    /\ \A t \in timers : d <= t.left
    /\ timers' = {[t EXCEPT !.left = t.left - d] : t \in timers}
    /\ UNCHANGED << lastSentState, lastAxisValues >>
    /\ noPublish
    /\ UNCHANGED << Device, Connection, Config, isStreaming, mappings >>
    /\ Track(d)
    /\ lastOp' = Op("advanceTime")

----------------------------------------------------------------------------

Types == {"button", "axis"}
Indexes == {0}

\* Scenario restrictions: the user waits for a pending connect or close
\* before clicking again.
connectOnce == connecting = 0 /\ handleConnect
disconnectOnce == closing = 0 /\ handleDisconnect

ControlSnapshots ==
    { [isNull |-> FALSE, buttons |-> <<FALSE>>, axes |-> <<0>>],
      [isNull |-> FALSE, buttons |-> <<TRUE>>, axes |-> <<0>>] }
ControlTexts == {<<"a">>}
ControlConfigs == {c \in SavedConfigs : c.hasMode}
DetectConfigs == {c \in SavedConfigs : ~c.hasMode}

\* The scheduler: every operation on connection, device, streaming, mode,
\* mapping table, timer and clock, over two snapshots.
Next ==
    \/ \E p \in Pads : handleGamepadConnected(p)
    \/ \E p \in Pads : handleGamepadDisconnected(p)
    \/ \E p \in Pads, s \in ControlSnapshots : selectGamepad(p, s, TRUE)
    \/ \E s \in ControlSnapshots : pollGamepad(s, TRUE)
    \/ connectOnce
    \/ connectResolved(TRUE)
    \/ disconnectOnce
    \/ disconnectDone
    \/ toggleStreaming(TRUE)
    \/ setSendByInterval
    \/ \E v \in SendHzInputs : setSendHz(v)
    \/ \E c \in ControlConfigs : handleLoadConfig(c, TRUE)
    \/ \E c \in ControlConfigs : loadUrlConfig(c)
    \/ \E ty \in Types, i \in Indexes, n \in ControlTexts : addMapping(ty, i, n, TRUE)
    \/ \E ty \in Types, i \in Indexes : removeMapping(ty, i, TRUE)
    \/ \E t \in timers : timerFire(t, TRUE)
    \/ \E d \in TimeSteps \cup {t.left : t \in timers} : advanceTime(d)

Spec == Init /\ [][Next]_vars

\* The change detector: the session never enters interval mode and every
\* publish succeeds; every snapshot and field text.
NextDetect ==
    \/ \E p \in Pads : handleGamepadConnected(p)
    \/ \E p \in Pads : handleGamepadDisconnected(p)
    \/ \E p \in Pads, s \in Snapshots : selectGamepad(p, s, TRUE)
    \/ \E s \in Snapshots : pollGamepad(s, TRUE)
    \/ connectOnce
    \/ connectResolved(TRUE)
    \/ disconnectOnce
    \/ disconnectDone
    \/ toggleStreaming(TRUE)
    \/ \E c \in DetectConfigs : handleLoadConfig(c, TRUE)
    \/ \E ty \in Types, i \in Indexes, n \in FieldTexts : addMapping(ty, i, n, TRUE)
    \/ \E ty \in Types, i \in Indexes : removeMapping(ty, i, TRUE)

SpecDetect == Init /\ [][NextDetect]_vars

\* Publish failures: both modes at the default frequency, every evaluation
\* of the effect and every timer callback with a publish that succeeds or
\* throws.
NextFail ==
    \/ \E p \in Pads : handleGamepadConnected(p)
    \/ \E p \in Pads, s \in ControlSnapshots, ok \in BOOLEAN : selectGamepad(p, s, ok)
    \/ \E s \in ControlSnapshots, ok \in BOOLEAN : pollGamepad(s, ok)
    \/ connectOnce
    \/ \E ok \in BOOLEAN : connectResolved(ok)
    \/ disconnectOnce
    \/ disconnectDone
    \/ \E ok \in BOOLEAN : toggleStreaming(ok)
    \/ setSendByInterval
    \/ \E ty \in Types, i \in Indexes, n \in ControlTexts, ok \in BOOLEAN : addMapping(ty, i, n, ok)
    \/ \E ty \in Types, i \in Indexes, ok \in BOOLEAN : removeMapping(ty, i, ok)
    \/ \E t \in timers, ok \in BOOLEAN : timerFire(t, ok)
    \/ \E d \in TimeSteps \cup {t.left : t \in timers} : advanceTime(d)

SpecFail == Init /\ [][NextFail]_vars

\* The payload: one button and one axis over the dead-zone boundary and over
\* exact and inexact rounding ties; tables with in-range, out-of-range and
\* same-named mappings, in either mode.
PayloadAxisValues == {-145, -125, -50, -49, 0, 49, 50, 51, 125, 145}
PayloadSnapshots ==
    { [isNull |-> FALSE, buttons |-> <<v > 0>>, axes |-> <<v>>] : v \in PayloadAxisValues }
PayloadTables ==
    { <<Button(0, <<"a">>), Axis(0, <<"b">>)>>,
      <<Button(1, <<"a">>), Axis(1, <<"b">>)>>,
      <<Axis(0, <<"a">>), Button(0, <<"a">>), Button(1, <<"b">>), Axis(0, <<"b">>)>> }
PayloadConfigs ==
    { [mappings |-> t, hasHz |-> FALSE, sendHz |-> 0, hasMode |-> FALSE, sendByInterval |-> FALSE] :
        t \in PayloadTables }

NextPayload ==
    \/ \E p \in Pads : handleGamepadConnected(p)
    \/ \E p \in Pads, s \in PayloadSnapshots : selectGamepad(p, s, TRUE)
    \/ \E s \in PayloadSnapshots : pollGamepad(s, TRUE)
    \/ connectOnce
    \/ connectResolved(TRUE)
    \/ toggleStreaming(TRUE)
    \/ setSendByInterval
    \/ \E c \in PayloadConfigs : handleLoadConfig(c, TRUE)
    \/ \E t \in timers : timerFire(t, TRUE)
    \/ \E d \in TimeSteps \cup {t.left : t \in timers} : advanceTime(d)

SpecPayload == Init /\ [][NextPayload]_vars

\* The connection: Connect and Disconnect clicked while earlier connects and
\* closes are pending, connects that resolve or reject, and a session that
\* streams on the connection it holds.
NextConn ==
    \/ \E p \in Pads : handleGamepadConnected(p)
    \/ \E p \in Pads, s \in ControlSnapshots : selectGamepad(p, s, TRUE)
    \/ \E s \in ControlSnapshots : pollGamepad(s, TRUE)
    \/ handleConnect
    \/ connectResolved(TRUE)
    \/ connectRejected
    \/ handleDisconnect
    \/ disconnectDone
    \/ toggleStreaming(TRUE)
    \/ \E ty \in Types, i \in Indexes, n \in ControlTexts : addMapping(ty, i, n, TRUE)

SpecConn == Init /\ [][NextConn]_vars

\* The polling loop: two pads that come and go, selections that change, and
\* frames, with a session that connects, maps and streams.
PollPads == {0, 1}

NextPoll ==
    \/ \E p \in PollPads : handleGamepadConnected(p)
    \/ \E p \in PollPads : handleGamepadDisconnected(p)
    \/ \E p \in PollPads, s \in ControlSnapshots : selectGamepad(p, s, TRUE)
    \/ \E s \in ControlSnapshots : pollGamepad(s, TRUE)
    \/ connectOnce
    \/ connectResolved(TRUE)
    \/ toggleStreaming(TRUE)
    \/ \E ty \in Types, i \in Indexes, n \in ControlTexts : addMapping(ty, i, n, TRUE)

SpecPoll == Init /\ [][NextPoll]_vars

\* The mapping table: every sequence of addMapping and removeMapping calls
\* from the empty table, over two buttons, two axes and blank, padded and
\* plain names.
MapIndexes == {0, 1}
MapTexts == {<<>>, <<" ">>, <<"a">>, <<" ", "b", " ">>}

NextMap ==
    \/ \E ty \in Types, i \in MapIndexes, n \in MapTexts : addMappingCall(ty, i, n, TRUE)
    \/ \E ty \in Types, i \in MapIndexes : removeMappingCall(ty, i, TRUE)

SpecMap == Init /\ [][NextMap]_vars

----------------------------------------------------------------------------
(* Properties *)

\* The session is streaming in change-detection mode and the send effect's
\* guard is passed.
DetectActive ==
    /\ isStreaming
    /\ ~sendByInterval
    /\ natsConnection # Null
    /\ ~gamepadState.isNull
    /\ mappings # <<>>

\* The session is streaming in interval mode on a connection, a snapshot and
\* a non-empty table.
IntervalMode ==
    /\ isStreaming
    /\ sendByInterval
    /\ isConnected
    /\ ~gamepadState.isNull
    /\ mappings # <<>>

\* Channel m's deadzone-filtered value in snapshot gs differs from its latch.
ChannelChanged(gs, m, buttons, axes) ==
    IF m.type = "button"
    THEN ButtonAt(gs, m.index) # LatchButton(buttons, m.index)
    ELSE LatchAxis(axes, m.index) # <<Deadzone(AxisAt(gs, m.index))>>

FieldNamesOf(maps) == {maps[i].fieldName : i \in DOMAIN maps}

\* C1: in change-detection mode the first evaluation after start streaming
\* performs exactly one publish, whatever the non-empty mapping table
\* (out-of-range indexes included) and the snapshot.
C1_FirstEvaluationPublishes ==
    (lastOp.op = "toggleStreaming" /\ lastOp.from = "Idle" /\ DetectActive) => pub.n = 1

\* C2: the latch maps are cleared when streaming stops, so that a restart
\* begins with empty latches: while the scheduler is Idle both maps are empty.
C2_LatchesClearedOnStop ==
    ~isStreaming => (lastSentState = NoLatch /\ lastAxisValues = NoLatch)

\* C3: in change-detection mode a tick on which no mapped channel's
\* filtered value differs from its latch performs no publish; in particular
\* the second of two consecutive ticks with the same snapshot and the same
\* mapping table performs none.
C3_NoChangeNoPublish ==
    [][ /\ ( /\ lastOp'.op = "pollGamepad"
             /\ DetectActive'
             /\ \A i \in DOMAIN mappings' :
                    ~ChannelChanged(gamepadState', mappings'[i], lastSentState, lastAxisValues) )
           => pub'.n = 0
        /\ ( /\ lastOp.op = "pollGamepad"
             /\ lastOp'.op = "pollGamepad"
             /\ DetectActive
             /\ DetectActive'
             /\ gamepadState' = gamepadState
             /\ mappings' = mappings )
           => pub'.n = 0 ]_vars

\* C3 witness: a tick of an active change-detection session that published
\* nothing, with latches written by an earlier evaluation.
C3_Witness ==
    /\ lastOp.op = "pollGamepad"
    /\ lastOp.from = "ChangeDetect"
    /\ DetectActive
    /\ pub.n = 0
    /\ lastAxisValues # NoLatch

\* C4: in change-detection mode a tick on which some mapped channel changed
\* performs exactly one publish, its payload has every mapped field, and after
\* it the latch of every mapped channel equals the value just observed.
C4_ChangePublishesAll ==
    [][ ( /\ lastOp'.op = "pollGamepad"
          /\ DetectActive'
          /\ \E i \in DOMAIN mappings' :
                 ChannelChanged(gamepadState', mappings'[i], lastSentState, lastAxisValues) )
        => ( /\ pub'.n = 1
             /\ DOMAIN pub'.payload = FieldNamesOf(mappings')
             /\ \A i \in DOMAIN mappings' :
                    ~ChannelChanged(gamepadState', mappings'[i], lastSentState', lastAxisValues') )
      ]_vars

\* C4 witness: a tick of an active change-detection session that published a
\* payload of two fields, one from a button and one from an axis.
C4_Witness ==
    /\ lastOp.op = "pollGamepad"
    /\ lastOp.from = "ChangeDetect"
    /\ DetectActive
    /\ pub.n = 1
    /\ Cardinality(DOMAIN pub.payload) = 2
    /\ \E i, j \in DOMAIN mappings : mappings[i].type = "button" /\ mappings[j].type = "axis"

C6_IdleHasNoTimer ==
    ~isStreaming => (timers = {} /\ pub.n = 0)

\* C6 witness: stop streaming pressed in an interval-mode session that had a
\* timer armed (connection, snapshot and table are as before the click).
C6_Witness ==
    /\ lastOp.op = "toggleStreaming"
    /\ lastOp.from = "IntervalDriven"
    /\ ~isStreaming
    /\ natsConnection # Null
    /\ ~gamepadState.isNull
    /\ mappings # <<>>

\* C7: a publish is attempted only while streaming, with a connection held,
\* a snapshot present and a non-empty mapping table.
C7_PublishOnlyWhenActive ==
    pub.n = 1 =>
        (isStreaming /\ natsConnection # Null /\ ~gamepadState.isNull /\ mappings # <<>>)

\* C7 witness: a publish made by the interval timer.
C7_Witness ==
    pub.n = 1 /\ lastOp.op = "timerFire"

\* C8: the scheduler leaves Idle only by the start streaming action, and only
\* when connected, with a pad selected and a non-empty mapping table.
C8_StartIsGated ==
    (lastOp.from = "Idle" /\ isStreaming) =>
        ( /\ lastOp.op = "toggleStreaming"
          /\ isConnected
          /\ selectedGamepadIndex # NoSelection
          /\ mappings # <<>> )

\* C8 witness: streaming has just been started.
C8_Witness ==
    lastOp.from = "Idle" /\ isStreaming /\ lastOp.op = "toggleStreaming"

\* C9: handleDisconnect on a held connection ends with isConnected false,
\* natsConnection null and isStreaming false, whatever the scheduler state.
C9_DisconnectForcesIdle ==
    lastOp.op = "disconnectDone" =>
        (~isConnected /\ natsConnection = Null /\ ~isStreaming)

\* C9 witness: handleDisconnect completed on a session that was streaming in
\* interval mode.
C9_Witness ==
    lastOp.op = "disconnectDone" /\ lastOp.from = "IntervalDriven"

\* C10: when the selected pad disappears while streaming, isStreaming
\* becomes false.
C10_DeviceLossForcesIdle ==
    ( /\ lastOp.op = "handleGamepadDisconnected"
      /\ lastOp.from # "Idle"
      /\ selectedGamepadIndex = NoSelection )
    => ~isStreaming

\* C11: while isStreaming is true no operation changes sendByInterval or
\* sendHz.
C11_ConfigFixedWhileStreaming ==
    [][isStreaming => (sendByInterval' = sendByInterval /\ sendHz' = sendHz)]_vars

\* C12: in every reachable state sendHz is an integer in [1,100].
C12_SendHzInRange ==
    sendHz \in 1..100

\* No two entries of the table have the same (type, index) pair.
UniquePairs(maps) ==
    \A i, j \in DOMAIN maps :
        (maps[i].type = maps[j].type /\ maps[i].index = maps[j].index) => i = j

NonBlank(text) == \E k \in DOMAIN text : text[k] # " "

\* C13: from the empty table, after any sequence of addMapping and
\* removeMapping calls the table has at most one entry per (type, index), and
\* after addMapping(t, i, n) with a non-blank n the entry of (t, i) has the
\* trimmed n as fieldName.
C13_OneEntryPerPair ==
    [][ /\ UniquePairs(mappings')
        /\ \A ty \in Types, i \in MapIndexes, n \in MapTexts :
               (NonBlank(n) /\ addMappingCall(ty, i, n, TRUE)) =>
                   \E k \in DOMAIN mappings' :
                       /\ mappings'[k].type = ty
                       /\ mappings'[k].index = i
                       /\ mappings'[k].fieldName = trim(n)
      ]_vars

\* C13 witness: addMapping has replaced the entry of a pair that had one: the
\* table holds three other pairs before the entry just written, whose name
\* is the trimmed "b".
C13_Witness ==
    /\ lastOp.op = "addMapping"
    /\ Len(mappings) = 4
    /\ mappings[4].fieldName = <<"b">>
    /\ mappings[1].fieldName = <<"b">>

\* C14: addMapping with an empty or whitespace-only name leaves the mapping
\* table unchanged and publishes nothing.
C14_BlankNameIsNoOp ==
    [][ lastOp'.op = "addMappingBlank" => (mappings' = mappings /\ pub'.n = 0) ]_vars

\* C14 witness: addMapping was called with a blank name on a non-empty table.
C14_Witness ==
    lastOp.op = "addMappingBlank" /\ mappings # <<>>

\* C15: when publish throws on a tick (an animation frame or a timer
\* callback), isStreaming, isConnected, the connection, the mode and the
\* frequency are unchanged, the timer stays armed with its period in interval
\* mode and absent in change-detection mode, lastMessage and error keep their
\* values, and the latches hold the failed snapshot so that an identical next
\* tick publishes nothing.
C15_PublishFailureIsCaught ==
    [][ (pub'.n = 1 /\ ~pub'.ok) =>
          /\ lastMessage' = lastMessage
          /\ error' = error
          /\ lastOp'.op \in {"pollGamepad", "timerFire"} =>
                /\ isStreaming' = isStreaming
                /\ isConnected' = isConnected
                /\ natsConnection' = natsConnection
                /\ sendByInterval' = sendByInterval
                /\ sendHz' = sendHz
                /\ mappings' = mappings
                /\ IF sendByInterval
                   THEN /\ timers' # {}
                        /\ \A t \in timers' : t.left = t.period /\ t.period = intervalMs(sendHz)
                   ELSE /\ timers' = {}
                        /\ timers = {}
                        /\ ~detectChanges(gamepadState', mappings',
                                          lastSentState', lastAxisValues').hasChange
      ]_vars

\* C15 witness: a frame's publish threw while lastMessage holds the different
\* payload of an earlier publish.
C15_Witness ==
    /\ lastOp.op = "pollGamepad"
    /\ pub.n = 1
    /\ ~pub.ok
    /\ lastMessage.set
    /\ lastMessage.payload # pub.payload

\* C16: lastMessage is absent until a publish succeeds; a successful publish
\* sets it to the payload sent, whose keys are all field names of the table;
\* a failed publish and a step without publish leave it as it was.
C16_LastMessageIsLastSuccess ==
    [][ IF pub'.n = 1 /\ pub'.ok
        THEN /\ lastMessage' = [set |-> TRUE, payload |-> pub'.payload]
             /\ DOMAIN lastMessage'.payload = FieldNamesOf(mappings')
        ELSE lastMessage' = lastMessage
      ]_vars

\* C16 witness: a timer callback published successfully and lastMessage shows
\* its payload.
C16_Witness ==
    /\ lastOp.op = "timerFire"
    /\ pub.n = 1
    /\ pub.ok
    /\ lastMessage = [set |-> TRUE, payload |-> pub.payload]
    /\ pub.payload # NoPayload

\* The mapping at position i is the last of the table with its field name.
LastWithName(maps, i) ==
    \A j \in DOMAIN maps : j > i => maps[j].fieldName # maps[i].fieldName

\* The mapping's index is outside the snapshot's array of its type.
OutOfRange(gs, m) ==
    IF m.type = "button" THEN m.index + 1 \notin DOMAIN gs.buttons
    ELSE m.index + 1 \notin DOMAIN gs.axes

\* C17: every payload published, by a timer callback in interval mode or by
\* an evaluation in change-detection mode, has a field for every mapping,
\* and the field of a mapping whose index is outside the snapshot's range is
\* 0, for a button and for an axis.
C17_OutOfRangeIsZero ==
    pub.n = 1 =>
        \A i \in DOMAIN mappings :
            /\ mappings[i].fieldName \in DOMAIN pub.payload
            /\ (LastWithName(mappings, i) /\ OutOfRange(gamepadState, mappings[i])) =>
                   pub.payload[mappings[i].fieldName] = 0

\* C17 witness: a timer callback in interval mode has published a payload for
\* a table whose button and axis mappings are both out of range, with the
\* button down and the axis off centre.
C17_Witness ==
    /\ lastOp.op = "timerFire"
    /\ pub.n = 1
    /\ mappings = <<Button(1, <<"a">>), Axis(1, <<"b">>)>>
    /\ gamepadState.buttons = <<TRUE>>
    /\ gamepadState.axes = <<145>>
    /\ pub.payload[<<"a">>] = 0
    /\ pub.payload[<<"b">>] = 0

\* The dead zone as the specification states it, on thousandths.
Filtered(raw) == IF raw > -50 /\ raw < 50 THEN 0 ELSE raw

\* n hundredths is the decimal value a / 1000 >= 0 rounded to 2 places, ties
\* away from zero.
RoundsHalfAway(n, a) ==
    /\ 10 * n - a <= 5
    /\ a - 10 * n < 5

\* n hundredths is nearest to the value of the double of a / 1000 >= 0, and
\* the larger of two equally near.
RoundsDouble(n, a) ==
    /\ 10 * n - a <= 5
    /\ a - 10 * n <= 5
    /\ 10 * n - a = 5 => a \notin DoubleBelow
    /\ a - 10 * n = 5 => a \in DoubleBelow

\* The payload has the table's field names as keys; a button field is 1
\* (100 hundredths) when pressed, else 0; an axis field is the filtered raw
\* value rounded as Rounds says, the sign apart.
PayloadMatches(payload, gs, maps, Rounds(_, _)) ==
    /\ DOMAIN payload = FieldNamesOf(maps)
    /\ \A i \in DOMAIN maps :
          LastWithName(maps, i) =>
              LET m == maps[i]
                  out == payload[m.fieldName]
              IN IF m.type = "button"
                 THEN out = IF m.index + 1 \in DOMAIN gs.buttons /\ gs.buttons[m.index + 1]
                            THEN 100 ELSE 0
                 ELSE LET raw == IF m.index + 1 \in DOMAIN gs.axes
                                 THEN gs.axes[m.index + 1] ELSE 0
                          x == Filtered(raw)
                      IN IF x >= 0 THEN Rounds(out, x) ELSE Rounds(-out, -x)

\* C18 as stated: every published payload has exactly the table's field
\* names, 1 / 0 for buttons, and for axes the filtered value rounded to 2
\* decimal places, ties away from zero.
C18_PayloadRoundsHalfAway ==
    pub.n = 1 => PayloadMatches(pub.payload, gamepadState, mappings, RoundsHalfAway)

\* C18 amended: every published payload has exactly the table's field names,
\* 1 / 0 for buttons, and for axes the filtered value rounded to the nearest
\* hundredth of the double's value: a tie that is a double exactly (0.125)
\* goes away from zero, a decimal tie whose double is smaller (0.145) goes
\* toward zero.
C18_PayloadRoundsDouble ==
    pub.n = 1 => PayloadMatches(pub.payload, gamepadState, mappings, RoundsDouble)

\* C18 witness: a payload with the button up and the axis at -0.145 has been
\* published as 0 and -0.14.
C18_Witness ==
    /\ pub.n = 1
    /\ mappings = <<Button(0, <<"a">>), Axis(0, <<"b">>)>>
    /\ gamepadState.axes = <<-145>>
    /\ pub.payload = [k \in {<<"a">>, <<"b">>} |-> IF k = <<"a">> THEN 0 ELSE -14]

\* C19: while change detection is active the latch of every mapped axis is
\* the dead-zone filter of its raw value: 0 for |raw| < 0.05, raw itself for
\* |raw| >= 0.05; and filtering the latch again gives the latch.
C19_DeadzoneFilter ==
    DetectActive =>
        \A i \in DOMAIN mappings :
            mappings[i].type = "axis" =>
                LET idx == mappings[i].index
                    raw == IF idx + 1 \in DOMAIN gamepadState.axes
                           THEN gamepadState.axes[idx + 1] ELSE 0
                IN /\ idx \in DOMAIN lastAxisValues
                   /\ lastAxisValues[idx] = Filtered(raw)
                   /\ Deadzone(lastAxisValues[idx]) = lastAxisValues[idx]

\* C19 witness: the boundary value -0.05 has passed the filter unchanged.
C19_Witness ==
    /\ DetectActive
    /\ mappings = <<Button(0, <<"a">>), Axis(0, <<"b">>)>>
    /\ gamepadState.axes = <<-50>>
    /\ lastAxisValues[0] = -50

\* C20: after a connect that failed the error message is stored and the
\* session is not connected (isConnected false, natsConnection null,
\* isStreaming false); after a connect that succeeded the error is cleared
\* and isConnected is true.
C20_ConnectOutcome ==
    /\ lastOp.op = "connectRejected" =>
          /\ error # "null"
          /\ ~isConnected
          /\ natsConnection = Null
          /\ ~isStreaming
    /\ lastOp.op = "connectResolved" =>
          /\ error = "null"
          /\ isConnected

\* C21: when two mappings of different (type, index) pairs have the same
\* fieldName, every published payload has that key once, with the value of
\* the mapping that is later in the table.
C21_LastMappingWins ==
    pub.n = 1 =>
        /\ DOMAIN pub.payload = FieldNamesOf(mappings)
        /\ \A i, j \in DOMAIN mappings :
              ( /\ i < j
                /\ mappings[i].fieldName = mappings[j].fieldName
                /\ LastWithName(mappings, j) ) =>
                  pub.payload[mappings[j].fieldName] = FieldValue(gamepadState, mappings[j])

\* C21 witness: axis 0 at 0.145 and the pressed button 0 are both named "a",
\* the button later; button 1 and axis 0 are both named "b", the axis later;
\* the payload published has 1 for "a" and 0.14 for "b".
C21_Witness ==
    /\ pub.n = 1
    /\ mappings = <<Axis(0, <<"a">>), Button(0, <<"a">>), Button(1, <<"b">>), Axis(0, <<"b">>)>>
    /\ gamepadState.axes = <<145>>
    /\ gamepadState.buttons = <<TRUE>>
    /\ pub.payload[<<"a">>] = 100
    /\ pub.payload[<<"b">>] = 14

\* In the snapshot gs every mapped channel other than axis idx has the value
\* its latch holds.
OthersUnchanged(gs, maps, buttons, axes, idx) ==
    \A j \in DOMAIN maps :
        IF maps[j].type = "button"
        THEN ButtonAt(gs, maps[j].index) = LatchButton(buttons, maps[j].index)
        ELSE \/ maps[j].index = idx
             \/ LatchAxis(axes, maps[j].index) = <<Filtered(AxisAt(gs, maps[j].index))>>

\* C22: on a frame of an active change-detection session, for every mapped
\* axis: with the latch at 0, a raw value with |raw| < 0.05 and no other
\* channel changed publishes nothing and leaves the latch at 0; with the
\* latch at 0, a raw value with |raw| >= 0.05 publishes it and latches it;
\* with a latch other than 0, a raw value with |raw| < 0.05 publishes 0 and
\* latches 0, after which the first case applies.
C22_DeadzoneSuppressesNoise ==
    [][ (DetectActive /\ lastOp'.op = "pollGamepad") =>
          \A k \in DOMAIN mappings :
              mappings[k].type = "axis" =>
                  LET idx == mappings[k].index
                      old == lastAxisValues[idx]
                      raw == AxisAt(gamepadState', idx)
                      inside == raw > -50 /\ raw < 50
                  IN /\ ( /\ old = 0
                          /\ inside
                          /\ OthersUnchanged(gamepadState', mappings, lastSentState,
                                             lastAxisValues, idx) ) =>
                            (pub'.n = 0 /\ lastAxisValues'[idx] = 0)
                     /\ (old = 0 /\ ~inside) =>
                            /\ pub'.n = 1
                            /\ lastAxisValues'[idx] = raw
                            /\ LastWithName(mappings, k) =>
                                   pub'.payload[mappings[k].fieldName] = ToFixed2(raw)
                     /\ (old # 0 /\ inside) =>
                            /\ pub'.n = 1
                            /\ lastAxisValues'[idx] = 0
                            /\ LastWithName(mappings, k) =>
                                   pub'.payload[mappings[k].fieldName] = 0
      ]_vars

\* C22 witness: with the latch at 0 and the button up, a frame moved the axis
\* to -0.049 and nothing was published.
C22_Witness ==
    /\ DetectActive
    /\ lastOp = [op |-> "pollGamepad", from |-> "ChangeDetect"]
    /\ mappings = <<Button(0, <<"a">>), Axis(0, <<"b">>)>>
    /\ gamepadState.axes = <<-49>>
    /\ lastAxisValues[0] = 0
    /\ pub.n = 0

\* C23: in interval mode, at a frequency within 1..100, a frame's new
\* snapshot leaves the pending fire time of the interval timer as it was.
C23_SnapshotKeepsTimer ==
    [][ (IntervalMode /\ sendHz \in 1..100 /\ lastOp'.op = "pollGamepad") =>
            {t.left : t \in timers'} = {t.left : t \in timers} ]_vars

\* C24: in interval mode every timer fire and every frame leaves lastSentState
\* and lastAxisValues as they were, and every timer fire publishes, whatever
\* the latches hold.
C24_IntervalIgnoresLatches ==
    [][ /\ (IntervalMode /\ lastOp'.op \in {"pollGamepad", "timerFire"}) =>
              (lastSentState' = lastSentState /\ lastAxisValues' = lastAxisValues)
        /\ lastOp'.op = "timerFire" => pub'.n = 1
      ]_vars

\* C24 witness: a timer fire has published although the latches, left by an
\* earlier change-detection session, hold the values of the snapshot.
C24_Witness ==
    /\ lastOp.op = "timerFire"
    /\ pub.n = 1
    /\ lastSentState # NoLatch
    /\ ~detectChanges(gamepadState, mappings, lastSentState, lastAxisValues).hasChange

\* C25: every armed timer's callback holds the current snapshot and the
\* current mapping table, and the payload a timer fire has published is the
\* one built from them.
C25_TimerUsesCurrentSnapshot ==
    /\ \A t \in timers : t.snapshot = gamepadState /\ t.mappings = mappings
    /\ lastOp.op = "timerFire" =>
          /\ pub.n = 1
          /\ DOMAIN pub.payload = FieldNamesOf(mappings)
          /\ \A i \in DOMAIN mappings :
                LastWithName(mappings, i) =>
                    pub.payload[mappings[i].fieldName] = FieldValue(gamepadState, mappings[i])

\* C25 witness: a timer fire has published the pressed button of the current
\* snapshot.
C25_Witness ==
    /\ lastOp.op = "timerFire"
    /\ pub.n = 1
    /\ gamepadState.buttons = <<TRUE>>
    /\ mappings = <<Button(0, <<"a">>)>>
    /\ pub.payload[<<"a">>] = 100

\* C26: a publish that throws leaves every latch entry as it was, so that the
\* latches hold the values of the last payload that was sent.
C26_LatchOnlyOnSuccess ==
    [][ (pub'.n = 1 /\ ~pub'.ok) =>
            (lastSentState' = lastSentState /\ lastAxisValues' = lastAxisValues) ]_vars

\* C27: on a frame of an active change-detection session, a mapped axis
\* whose filtered value differs from its latch causes a publish of the
\* payload of the new snapshot, also when every field rounds to the value
\* the previous payload had.
C27_ComparesBeforeRounding ==
    [][ ( /\ DetectActive
          /\ lastOp'.op = "pollGamepad"
          /\ \E k \in DOMAIN mappings :
                /\ mappings[k].type = "axis"
                /\ LatchAxis(lastAxisValues, mappings[k].index) #
                       <<Filtered(AxisAt(gamepadState', mappings[k].index))>> ) =>
            /\ pub'.n = 1
            /\ pub'.payload = buildPayload(gamepadState', mappings)
      ]_vars

\* C27 witness: a frame with the axis at 0.051 has published 0.05 and
\* latched 0.051.
C27_Witness ==
    /\ DetectActive
    /\ lastOp = [op |-> "pollGamepad", from |-> "ChangeDetect"]
    /\ mappings = <<Button(0, <<"a">>), Axis(0, <<"b">>)>>
    /\ gamepadState.axes = <<51>>
    /\ lastAxisValues[0] = 51
    /\ pub.n = 1
    /\ pub.payload[<<"b">>] = 5

\* C28: in a change-detection session, adding a mapping for a channel right
\* after a mapping was removed publishes on the evaluation the add causes,
\* whatever the latch of the channel holds.
C28_ReAddIsFirstObservation ==
    [][ ( /\ DetectActive
          /\ lastOp = [op |-> "removeMapping", from |-> "ChangeDetect"]
          /\ lastOp'.op = "addMapping"
          /\ DetectActive' ) =>
            pub'.n = 1 ]_vars

\* C29: adding or removing a mapping leaves isStreaming as it was; every
\* payload published has exactly the field names of the table of that
\* moment, so a removed mapping's field is gone; and in an active
\* change-detection session a mapping added for a channel that has no latch
\* is published, with its field, on the evaluation the add causes.
C29_MappingEditsMidStream ==
    [][ /\ lastOp'.op \in {"addMapping", "removeMapping"} => isStreaming' = isStreaming
        /\ pub'.n = 1 => DOMAIN pub'.payload = FieldNamesOf(mappings')
        /\ ( /\ DetectActive
             /\ lastOp'.op = "addMapping"
             /\ LET e == mappings'[Len(mappings')]
                IN IF e.type = "button"
                   THEN e.index \notin DOMAIN lastSentState
                   ELSE e.index \notin DOMAIN lastAxisValues ) =>
               LET e == mappings'[Len(mappings')]
               IN /\ isStreaming'
                  /\ pub'.n = 1
                  /\ pub'.payload[e.fieldName] = FieldValue(gamepadState', e)
      ]_vars

\* C29 witness: in a change-detection session that started with the button
\* alone, the axis was added under another name and published.
C29_Witness ==
    /\ DetectActive
    /\ lastOp = [op |-> "addMapping", from |-> "ChangeDetect"]
    /\ mappings = <<Button(0, <<"a">>), Axis(0, <<"b">>)>>
    /\ pub.n = 1
    /\ DOMAIN pub.payload = {<<"a">>, <<"b">>}

\* C30: in every reachable state at most one interval timer is armed, and a
\* timer is armed only while isStreaming and sendByInterval are both true.
C30_AtMostOneTimer ==
    /\ Cardinality(timers) <= 1
    /\ timers # {} => (isStreaming /\ sendByInterval)

\* C30 witness: a frame in interval mode has re-armed the timer and exactly
\* one timer is armed.
C30_Witness ==
    /\ lastOp = [op |-> "pollGamepad", from |-> "IntervalDriven"]
    /\ isStreaming
    /\ sendByInterval
    /\ Cardinality(timers) = 1

\* C31: entering interval mode, at a frequency within 1..100, publishes
\* nothing and arms the timer one full period ahead, and a timer fire that
\* publishes comes exactly one period after the entry or the publish
\* before it.
C31_FirstFireAfterOnePeriod ==
    [][ /\ ( /\ ~isStreaming
             /\ lastOp'.op = "toggleStreaming"
             /\ IntervalMode'
             /\ sendHz \in 1..100 ) =>
               /\ pub'.n = 0
               /\ timers' # {}
               /\ \A t \in timers' : t.left = intervalMs(sendHz)
        /\ (IntervalMode /\ sendHz \in 1..100 /\ lastOp'.op = "timerFire") =>
               sinceSend = intervalMs(sendHz)
      ]_vars

\* C32: in every reachable state isStreaming implies isConnected and a
\* natsConnection that is not null.
C32_StreamingImpliesConnected ==
    isStreaming => (isConnected /\ natsConnection # Null)

\* C32 witness: a close has completed on a streaming session and cleared
\* isStreaming together with the connection.
C32_Witness ==
    /\ lastOp.op = "disconnectDone"
    /\ lastOp.from # "Idle"
    /\ ~isStreaming
    /\ ~isConnected
    /\ natsConnection = Null

\* The Start/Stop Streaming button is rendered and not disabled.
StopEnabled ==
    /\ selectedGamepadIndex # NoSelection
    /\ isConnected
    /\ Len(mappings) # 0

\* C33: whenever isStreaming is true the Stop Streaming button is rendered
\* and enabled.
C33_StopAlwaysEnabled ==
    isStreaming => StopEnabled

\* C34: no publish is attempted on a connection whose close handleDisconnect
\* has requested.
C34_NoPublishAfterCloseRequest ==
    pub.n = 1 => connOpen

\* C35: no connection that was opened is left open without being the one
\* natsConnection holds.
C35_NoLeakedConnection ==
    leaked = 0

\* The entries of the table that are not of the pair (ty, i), in table order.
OtherEntries(maps, ty, i) ==
    LET Other(m) == ~(m.type = ty /\ m.index = i)
    IN SelectSeq(maps, Other)

\* C37: addMapping(t, i, n) with a non-blank n leaves the entries of the
\* other pairs as they were, in their order, and puts the entry of (t, i)
\* after them, at the end; removeMapping(t, i) leaves exactly the entries of
\* the other pairs, in their order.
C37_EditsKeepOtherEntries ==
    [][ /\ \A ty \in Types, i \in MapIndexes, n \in MapTexts :
               (NonBlank(n) /\ addMappingCall(ty, i, n, TRUE)) =>
                   /\ Len(mappings') = Len(OtherEntries(mappings, ty, i)) + 1
                   /\ SubSeq(mappings', 1, Len(mappings') - 1) = OtherEntries(mappings, ty, i)
                   /\ mappings'[Len(mappings')].type = ty
                   /\ mappings'[Len(mappings')].index = i
        /\ \A ty \in Types, i \in MapIndexes :
               removeMappingCall(ty, i, TRUE) => mappings' = OtherEntries(mappings, ty, i)
      ]_vars

\* C37 witness: removeMapping has taken axis 0 out of a table that keeps
\* button 0, button 1 and axis 1 in their order.
C37_Witness ==
    /\ lastOp.op = "removeMapping"
    /\ mappings = <<Button(0, <<"a">>), Button(1, <<"b">>), Axis(1, <<"a">>)>>

\* C36: while no pad is selected gamepadState is null and no pollGamepad
\* callback is scheduled; while a pad is selected exactly one is scheduled,
\* the one of the selected pad.
C36_OnePollingLoop ==
    IF selectedGamepadIndex = NoSelection
    THEN gamepadState = NullState /\ animationFrames = {}
    ELSE animationFrames = {selectedGamepadIndex}

\* C36 witness: the selection has changed from one pad to the other, whose
\* loop is the only one scheduled.
C36_Witness ==
    /\ lastOp.op = "selectGamepad"
    /\ selectedGamepadIndex = 1
    /\ ~gamepadState.isNull
    /\ present = {0, 1}
    /\ animationFrames = {1}
    /\ isStreaming

====
